---- MODULE Spec2Model ----
(***************************************************************************)
(* A model of crisismesh-ai: the mesh monitor loop (mesh_monitor.py), its  *)
(* feature extractors and telemetry parser, the read API (api.py), and the *)
(* chat relay (chat_server.py).                                            *)
(*                                                                         *)
(* Text is modelled as sequences of one-character strings, so that strip,  *)
(* split, startswith and int() are computed the way Python computes them.  *)
(* Real numbers are modelled exactly as integer numerators: feature values *)
(* in units of 1/510, probabilities in percent.                            *)
(* The float of the battery override is a fraction num / den, nan or inf.  *)
(***************************************************************************)
EXTENDS Integers, Sequences, FiniteSets, TLC

VARIABLES
    \* ---- the monitor process (mesh_monitor.py) ----
    pc,                 \* position of main(): start, parse, log, predict, except, sleep, crashed
    MODEL,              \* mesh_monitor.MODEL: "None" or the loaded classifier
    LAST_PREDICT_TIME,  \* mesh_monitor.LAST_PREDICT_TIME
    neighbors,          \* main()'s local list of neighbor records
    tick,               \* what the current loop iteration has done so far
    events,             \* [PREDICT]/[ACTION] lines printed by the current iteration or call
    routes,             \* neighbors deprioritized through batctl
    \* ---- the environment of the processes ----
    clock,              \* wall clock, seconds
    files,              \* LOG_DIR: log path -> rows
    torn,               \* log paths an append to which failed after the file was opened
    artifact,           \* what MODEL_PATH holds
    env_battery,        \* os.environ.get("CRISIS_BATTERY_PCT")
    \* ---- the API process (api.py) ----
    apiPc,              \* import, serve
    api_MODEL,          \* the name MODEL bound in api.py by its import
    apiResp,            \* the last response
    \* ---- direct calls of maybe_predict_and_act ----
    callTimes,          \* clock reading of every call so far
    callScored,         \* for every call so far, whether it invoked the classifier
    \* ---- direct calls of parse_batman_originators on a given text ----
    p_lines,            \* the lines of the source
    p_out,              \* the call's outcome
    \* ---- direct calls of the feature extractors ----
    f_tq,               \* the argument
    f_out,              \* the results
    \* ---- direct calls of get_battery_pct ----
    b_env,              \* os.environ.get("CRISIS_BATTERY_PCT") at the call
    b_out,              \* the call's outcome
    \* ---- the chat relay (chat_server.py) ----
    clients,            \* chat_server.clients: the list of registered sockets
    clients_lock,       \* the handler thread holding clients_lock, 0 when free
    socks,              \* every connection's socket: none (not accepted), open, closed
    hpc,                \* position of every connection's handle_client thread
    todo,               \* broadcast's copy list(clients), the part not yet visited
    received,           \* how many messages every handler has received
    owed,               \* the other connections that were accepted and open when a
                        \* handler received its current message, and still are
    sent_to,            \* the connections a handler's current message was sent to
    send_failed         \* the connections a sendall to which has raised

vars == <<pc, MODEL, LAST_PREDICT_TIME, neighbors, tick, events, routes,
          clock, files, torn, artifact, env_battery,
          apiPc, api_MODEL, apiResp,
          callTimes, callScored, p_lines, p_out, f_tq, f_out,
          b_env, b_out,
          clients, clients_lock, socks, hpc, todo, received, owed, sent_to,
          send_failed>>

monVars == <<pc, MODEL, LAST_PREDICT_TIME, neighbors, tick, events, routes,
             clock, files, torn, artifact, env_battery>>
apiVars == <<apiPc, api_MODEL, apiResp>>
rateVars == <<callTimes, callScored>>
parseVars == <<p_lines, p_out>>
featVars == <<f_tq, f_out>>
battVars == <<b_env, b_out>>
chatVars == <<clients, clients_lock, socks, hpc, todo, received, owed, sent_to,
              send_failed>>

-----------------------------------------------------------------------------
(* Text *)

WS == {" ", "\n"}
Digits == {"0", "1", "2", "3", "4", "5", "6", "7", "8", "9"}

DigitVal(c) ==
    CASE c = "0" -> 0 [] c = "1" -> 1 [] c = "2" -> 2 [] c = "3" -> 3
      [] c = "4" -> 4 [] c = "5" -> 5 [] c = "6" -> 6 [] c = "7" -> 7
      [] c = "8" -> 8 [] c = "9" -> 9

\* str.startswith
StartsWith(s, p) == Len(s) >= Len(p) /\ SubSeq(s, 1, Len(p)) = p

\* str.strip(chars): drops the characters of cs from both ends
RECURSIVE LStrip(_, _)
LStrip(s, cs) ==
    IF s # <<>> /\ Head(s) \in cs THEN LStrip(Tail(s), cs) ELSE s

RECURSIVE RStrip(_, _)
RStrip(s, cs) ==
    IF s # <<>> /\ s[Len(s)] \in cs THEN RStrip(SubSeq(s, 1, Len(s) - 1), cs) ELSE s

Strip(s, cs) == RStrip(LStrip(s, cs), cs)

\* str.split(): the maximal runs of non-whitespace characters
RECURSIVE SplitFrom(_, _, _)
SplitFrom(s, i, cur) ==
    IF i > Len(s)
    THEN IF cur = <<>> THEN <<>> ELSE <<cur>>
    ELSE IF s[i] \in WS
         THEN (IF cur = <<>> THEN <<>> ELSE <<cur>>) \o SplitFrom(s, i + 1, <<>>)
         ELSE SplitFrom(s, i + 1, Append(cur, s[i]))

Split(s) == SplitFrom(s, 1, <<>>)

\* str.split(":")[1]: the text between the first ":" and the next one.
\* Only called on a token that starts with "TQ:", so the field exists.
RECURSIVE UpToColon(_)
UpToColon(s) ==
    IF s = <<>> \/ Head(s) = ":" THEN <<>> ELSE <<Head(s)>> \o UpToColon(Tail(s))

RECURSIVE AfterColon(_)
AfterColon(s) ==
    IF s = <<>> THEN <<>> ELSE IF Head(s) = ":" THEN Tail(s) ELSE AfterColon(Tail(s))

SecondField(s) == UpToColon(AfterColon(s))

\* int(): an optional sign, then one or more digits
Unsigned(s) == IF s # <<>> /\ Head(s) \in {"-", "+"} THEN Tail(s) ELSE s

IsInt(s) ==
    /\ Unsigned(s) # <<>>
    /\ \A i \in 1..Len(Unsigned(s)) : Unsigned(s)[i] \in Digits

RECURSIVE NatVal(_)
NatVal(s) ==
    IF s = <<>> THEN 0 ELSE 10 * NatVal(SubSeq(s, 1, Len(s) - 1)) + DigitVal(s[Len(s)])

IntVal(s) == IF Head(s) = "-" THEN 0 - NatVal(Unsigned(s)) ELSE NatVal(Unsigned(s))

-----------------------------------------------------------------------------
(* parse_batman_originators *)

HeaderToken == <<"O", "r", "i", "g", "i", "n", "a", "t", "o", "r">>
TqPrefix == <<"T", "Q", ":">>
ParenPrefix == <<"(">>

\* Faulty variant of ParseLine: the header line is not skipped
ParseLineKeepsHeader(raw) ==
    LET line == Strip(raw, WS)
        parts == Split(line)
        tqs == SelectSeq(parts, LAMBDA p : StartsWith(p, TqPrefix))
        parens == SelectSeq(parts, LAMBDA p : StartsWith(p, ParenPrefix))
    IN  IF line = <<>> THEN <<>>
        ELSE IF tqs = <<>> THEN <<>>
        ELSE IF ~IsInt(SecondField(tqs[1])) THEN <<>>
        ELSE IF parens = <<>> THEN <<>>
        ELSE IF ~IsInt(Strip(parens[1], {"("})) THEN <<>>
        ELSE << [neighbor |-> parts[1],
                 last_seen_ms |-> IntVal(Strip(parens[1], {"("})),
                 tq |-> IntVal(SecondField(tqs[1])),
                 hop_count |-> 1] >>

\* The body of the loop over lines: <<>> when the line is skipped, else the
\* one record appended.
ParseLine(raw) ==
    LET line == Strip(raw, WS)
        parts == Split(line)
        tqs == SelectSeq(parts, LAMBDA p : StartsWith(p, TqPrefix))
        parens == SelectSeq(parts, LAMBDA p : StartsWith(p, ParenPrefix))
    IN  IF line = <<>> \/ StartsWith(line, HeaderToken) THEN <<>>
        ELSE IF tqs = <<>> THEN <<>>                        \* StopIteration
        ELSE IF ~IsInt(SecondField(tqs[1])) THEN <<>>       \* ValueError
        ELSE IF parens = <<>> THEN <<>>                     \* IndexError
        ELSE IF ~IsInt(Strip(parens[1], {"("})) THEN <<>>   \* ValueError
        ELSE << [neighbor |-> parts[1],
                 last_seen_ms |-> IntVal(Strip(parens[1], {"("})),
                 tq |-> IntVal(SecondField(tqs[1])),
                 hop_count |-> 1] >>

RECURSIVE ParseLines(_)
ParseLines(lines) ==
    IF lines = <<>> THEN <<>> ELSE ParseLine(Head(lines)) \o ParseLines(Tail(lines))

\* The whole call on a source: src.status is what the path holds.
parse_batman_originators(src) ==
    IF src.status = "missing" THEN [raised |-> "FileNotFoundError", value |-> <<>>]
    ELSE IF src.status = "unreadable" THEN [raised |-> "OSError", value |-> <<>>]
    ELSE [raised |-> "none", value |-> ParseLines(src.lines)]

-----------------------------------------------------------------------------
(* Feature extractors, in units of 1/510 *)

Min(a, b) == IF a < b THEN a ELSE b
Max(a, b) == IF a > b THEN a ELSE b

TqMax == 255
FeatureUnit == 510

\* Faulty variant of tq_clamped: the link quality is used unclamped
NoClamp(tq) == tq

tq_clamped(tq) == Max(0, Min(TqMax, tq))

\* Faulty variant of estimate_packet_loss: the factor 0.5 is missing
PacketLossNoHalf(tq) == 2 * (TqMax - Max(0, Min(TqMax, tq)))

\* 0.5 * (1 - tq_clamped / 255.0) = (255 - tq_clamped) / 510
estimate_packet_loss(tq) == TqMax - tq_clamped(tq)

\* tq_clamped / 255.0 = 2 * tq_clamped / 510
estimate_signal_strength(tq) == 2 * tq_clamped(tq)

-----------------------------------------------------------------------------
(* get_battery_pct *)

DefaultBattery == 80

\* os.environ.get: a record [set, val], val the characters of the value
EnvUnset == [set |-> FALSE, val |-> <<>>]
EnvSet(chars) == [set |-> TRUE, val |-> chars]

\* A float: a finite value num / den, or nan, or an infinity (num its sign)
Finite(num, den) == [kind |-> "finite", num |-> num, den |-> den]
NaN == [kind |-> "nan", num |-> 0, den |-> 1]
Infinity(sign) == [kind |-> "inf", num |-> sign, den |-> 1]

RECURSIVE Pow10(_)
Pow10(n) == IF n = 0 THEN 1 ELSE 10 * Pow10(n - 1)

LowerOf(c) ==
    CASE c = "N" -> "n" [] c = "A" -> "a" [] c = "I" -> "i" [] c = "F" -> "f"
      [] c = "T" -> "t" [] c = "Y" -> "y" [] OTHER -> c
Lower(s) == [i \in 1..Len(s) |-> LowerOf(s[i])]

Dots(s) == {i \in DOMAIN s : s[i] = "."}
IntPart(s) == IF Dots(s) = {} THEN s ELSE SubSeq(s, 1, (CHOOSE i \in Dots(s) : TRUE) - 1)
FracPart(s) ==
    IF Dots(s) = {} THEN <<>> ELSE SubSeq(s, (CHOOSE i \in Dots(s) : TRUE) + 1, Len(s))
IsDecimal(s) ==
    /\ Cardinality(Dots(s)) <= 1
    /\ \A i \in DOMAIN s : s[i] \in Digits \cup {"."}
    /\ Len(IntPart(s)) + Len(FracPart(s)) >= 1

\* float(text) on a str: surrounding whitespace is dropped, then an optional
\* sign, then "nan", "inf" or "infinity" in any case, or digits with an
\* optional fraction; any other text raises ValueError (ok = FALSE). The
\* exponent and digit-separator forms (1e3, 1_0) are not modelled and are
\* kept out of the texts explored.
float(text) ==
    LET t == Strip(text, WS)
        sign == IF t # <<>> /\ Head(t) = "-" THEN 0 - 1 ELSE 1
        body == Lower(Unsigned(t))
    IN  IF body = <<"n", "a", "n">> THEN [ok |-> TRUE, value |-> NaN]
        ELSE IF body \in {<<"i", "n", "f">>, <<"i", "n", "f", "i", "n", "i", "t", "y">>}
        THEN [ok |-> TRUE, value |-> Infinity(sign)]
        ELSE IF IsDecimal(body)
        THEN [ok |-> TRUE,
              value |-> Finite(sign * NatVal(IntPart(body) \o FracPart(body)),
                               Pow10(Len(FracPart(body))))]
        ELSE [ok |-> FALSE, value |-> NaN]

\* env_val = os.environ.get(...); if env_val: try: return float(env_val)
\* except ValueError: pass; return 80.0
get_battery_pct(env) ==
    IF env.set /\ env.val # <<>> /\ float(env.val).ok THEN float(env.val).value
    ELSE Finite(DefaultBattery, 1)

-----------------------------------------------------------------------------
(* The classifier artifact: an opaque object with predict_proba. *)
(* Probabilities are in percent.                                  *)

\* The feature row handed to predict_proba
FeatureRow(n, battery) ==
    [signal_strength |-> estimate_signal_strength(n.tq),
     packet_loss |-> estimate_packet_loss(n.tq),
     hop_count |-> n.hop_count,
     battery_pct |-> battery]

\* Two artifacts: a forest that scores every row, and an object whose
\* predict_proba raises on some rows.
Classifiers == {"clfForest", "clfFaulty"}

predict_proba(model, X) ==
    IF model = "clfForest"
    THEN [raised |-> FALSE,
          prob |-> IF X.signal_strength < 200 THEN 85
                   ELSE IF X.signal_strength < 400 THEN 70
                   ELSE 69]
    ELSE [raised |-> X.signal_strength >= 400, prob |-> 85]

-----------------------------------------------------------------------------
(* Time *)

PREDICTION_THRESHOLD == 70
POLL_INTERVAL_SEC == 2
PREDICT_INTERVAL_SEC == 5

\* Length of a UTC day in clock units (scaled down from 86400)
DayLen == 4

\* datetime.utcnow().date()
UtcDate(t) == t \div DayLen

\* datetime.utcnow().isoformat(): the date and the time of day
IsoFormat(t) == [date |-> t \div DayLen, time |-> t % DayLen]

-----------------------------------------------------------------------------
(* log_metrics *)

HeaderCols == <<"timestamp", "neighbor", "signal_strength", "packet_loss",
                "hop_count", "battery_pct", "will_fail">>
HeaderRow == [kind |-> "header", cols |-> HeaderCols]

\* LOG_DIR / f"metrics_{date}.csv"
LogPath(date) == <<"metrics_", date, ".csv">>

DataRow(ts, n, battery) ==
    [kind |-> "data",
     timestamp |-> ts,
     neighbor |-> n.neighbor,
     signal_strength |-> estimate_signal_strength(n.tq),
     packet_loss |-> estimate_packet_loss(n.tq),
     hop_count |-> n.hop_count,
     battery_pct |-> battery,
     will_fail |-> 0]

\* Faulty variant of HeaderFor: the header is written by every call
HeaderAlways(file_exists) == <<HeaderRow>>

\* if not file_exists: writer.writerow(header)
HeaderFor(file_exists) == IF file_exists THEN <<>> ELSE <<HeaderRow>>

\* Everything one call writes, in order
RowsToWrite(file_exists, ts, neighs, battery) ==
    HeaderFor(file_exists) \o [i \in 1..Len(neighs) |-> DataRow(ts, neighs[i], battery)]

\* Faulty variant of Content: the file is opened with mode "w"
ContentTruncated(fs, path) == <<>>

\* What open(log_path, "a") finds in the file: appends go after it
Content(fs, path) == IF path \in DOMAIN fs THEN fs[path] ELSE <<>>

\* One call. t1 and t2 are the two readings of utcnow() (lines 139 and 140);
\* outcome is "ok", "open" (mkdir or open raises: nothing is touched) or
\* "write" (the file is open, k rows reach it, then a write raises).
log_metrics(fs, tn, neighs, env, t1, t2, outcome, k) ==
    LET ts == IsoFormat(t1)
        log_path == LogPath(UtcDate(t2))
        file_exists == log_path \in DOMAIN fs
        rows == RowsToWrite(file_exists, ts, neighs, get_battery_pct(env))
    IN  IF outcome = "open"
        THEN [files |-> fs, torn |-> tn, raised |-> TRUE]
        ELSE IF outcome = "write"
        THEN [files |-> (log_path :> (Content(fs, log_path) \o SubSeq(rows, 1, k))) @@ fs,
              torn |-> tn \cup {log_path},
              raised |-> TRUE]
        ELSE [files |-> (log_path :> (Content(fs, log_path) \o rows)) @@ fs,
              torn |-> tn,
              raised |-> FALSE]

-----------------------------------------------------------------------------
(* maybe_predict_and_act *)

\* Faulty variant of MeetsThreshold: a score equal to the threshold does not trigger
MeetsThresholdStrict(prob) == prob > PREDICTION_THRESHOLD

\* if prob >= PREDICTION_THRESHOLD
MeetsThreshold(prob) == prob >= PREDICTION_THRESHOLD

\* The action taken on a high-risk neighbor: a printed line only; the batctl
\* call is commented out, so the routing state is returned as it was.
ActOn(rts, n) == rts

PredictEvent(n, prob) ==
    [kind |-> "PREDICT", neighbor |-> n.neighbor, tq |-> n.tq,
     hop |-> n.hop_count, prob |-> prob]
ActionEvent(n, prob) == [kind |-> "ACTION", neighbor |-> n.neighbor, prob |-> prob]

\* The loop over neighbors, from neighbor i on: the lines printed, the
\* routing state, and whether predict_proba raised.
RECURSIVE ScoreFrom(_, _, _, _, _)
ScoreFrom(model, neighs, battery, i, rts) ==
    IF i > Len(neighs) THEN [events |-> <<>>, routes |-> rts, raised |-> FALSE]
    ELSE LET n == neighs[i]
             r == predict_proba(model, FeatureRow(n, battery))
         IN  IF r.raised THEN [events |-> <<>>, routes |-> rts, raised |-> TRUE]
             ELSE LET act == MeetsThreshold(r.prob)
                      rest == ScoreFrom(model, neighs, battery, i + 1,
                                        IF act THEN ActOn(rts, n.neighbor) ELSE rts)
                  IN  [events |-> <<PredictEvent(n, r.prob)>>
                                  \o (IF act THEN <<ActionEvent(n, r.prob)>> ELSE <<>>)
                                  \o rest.events,
                       routes |-> rest.routes,
                       raised |-> rest.raised]

\* Faulty variant of RateLimited: the window is measured against the poll interval
RateLimitedByPoll(now, last) == now - last < POLL_INTERVAL_SEC

\* Faulty variant of RateLimited: a call exactly one interval after the last is held back
RateLimitedInclusive(now, last) == now - last <= PREDICT_INTERVAL_SEC

\* if now - LAST_PREDICT_TIME < PREDICT_INTERVAL_SEC: return
RateLimited(now, last) == now - last < PREDICT_INTERVAL_SEC

\* One call: what it leaves in LAST_PREDICT_TIME, what it prints, and how it ends:
\* "nomodel", "limited", "fired" (loop ran to its end) or "raised".
maybe_predict_and_act(model, last, now, neighs, env, rts) ==
    IF model = "None"
    THEN [last |-> last, events |-> <<>>, routes |-> rts, how |-> "nomodel"]
    ELSE IF RateLimited(now, last)
    THEN [last |-> last, events |-> <<>>, routes |-> rts, how |-> "limited"]
    ELSE LET r == ScoreFrom(model, neighs, get_battery_pct(env), 1, rts)
         IN  [last |-> now, events |-> r.events, routes |-> r.routes,
              how |-> IF r.raised THEN "raised" ELSE "fired"]

-----------------------------------------------------------------------------
(* Bounds of the model *)

\* Loop iterations of main() that are explored
MaxTicks == 3
\* Time between the two utcnow() readings of one log_metrics call
Lags == {0, 1}
\* Oversleep of time.sleep beyond POLL_INTERVAL_SEC
Drifts == {0, 1}
\* Clock reading when the process starts (time.time() is far past 1970)
ClockStart == 5

-----------------------------------------------------------------------------
(* What the telemetry path can hold when main() reads it *)

SP == <<" ">>
NL == <<"\n">>
MacA == <<"a", "a">>
MacB == <<"b", "b">>

TableHeader == HeaderToken \o SP \o <<"T", "Q">> \o NL
RowA150 == MacA \o SP \o <<"0", "s">> \o SP \o TqPrefix \o <<"1", "5", "0">> \o SP \o <<"(", "3">> \o NL
RowB255 == SP \o MacB \o SP \o <<"(", "7">> \o SP \o TqPrefix \o <<"2", "5", "5">> \o NL
RowA5 == MacA \o SP \o TqPrefix \o <<"5">> \o SP \o <<"(", "3">> \o NL
RowNoTq == MacB \o SP \o <<"(", "9">> \o NL

SrcMissing == [status |-> "missing", lines |-> <<>>]
SrcUnreadable == [status |-> "unreadable", lines |-> <<>>]
SrcOk(lines) == [status |-> "ok", lines |-> lines]

Sources ==
    {SrcMissing, SrcUnreadable,
     SrcOk(<<TableHeader, RowNoTq>>),
     SrcOk(<<TableHeader, RowA150, RowB255>>),
     SrcOk(<<RowA5>>)}

\* What MODEL_PATH can hold
Artifacts == {"missing", "unreadable"} \cup Classifiers

\* CRISIS_BATTERY_PCT as main() finds it
BatteryEnvs == {EnvUnset}

-----------------------------------------------------------------------------
(* main() of mesh_monitor.py *)

\* load_model: the value left in MODEL, and whether open or pickle.load raised
load_model(art) ==
    IF art = "missing" THEN [MODEL |-> "None", raised |-> FALSE]
    ELSE IF art = "unreadable" THEN [MODEL |-> "None", raised |-> TRUE]
    ELSE [MODEL |-> art, raised |-> FALSE]

\* The record of one loop iteration: its number, the clock reading at its
\* start, and how each of its calls ended
NewTick(n, t) ==
    [n |-> n, start |-> t, parse |-> "none", log |-> "none", predict |-> "none",
     err |-> FALSE]

\* Faulty variant of time_sleep: the call returns at once
SleepSkipped(now, secs, d) == now + d

\* time.sleep(secs): the clock when it returns, d the oversleep
time_sleep(now, secs, d) == now + secs + d

\* Faulty variant of OnRaise: the exception is not caught and leaves main()
OnRaiseExit == "crashed"

\* Where main() goes when a call inside the try block raises
OnRaise == "except"
\* Where main() goes when load_model, outside any try block, raises
OnLoadRaise == "crashed"
\* Where main() goes after parse_batman_originators returns
AfterParse == "log"
\* Where main() goes after log_metrics returns
AfterLog == "predict"

\* print("[INFO] Starting mesh monitor..."); load_model()
MainStart ==
    /\ pc = "start"
    /\ LET r == load_model(artifact)
       IN  /\ MODEL' = r.MODEL
           /\ pc' = IF r.raised THEN OnLoadRaise ELSE "parse"
    /\ UNCHANGED <<LAST_PREDICT_TIME, neighbors, tick, events, routes,
                   clock, files, torn, artifact, env_battery>>
    /\ UNCHANGED <<apiVars, rateVars, parseVars, featVars, battVars, chatVars>>

\* neighbors = parse_batman_originators()
ParseStep ==
    /\ pc = "parse"
    /\ \E src \in Sources :
         LET r == parse_batman_originators(src)
         IN  IF r.raised # "none"
             THEN /\ pc' = OnRaise
                  /\ tick' = [tick EXCEPT !.parse = "fail"]
                  /\ UNCHANGED neighbors
             ELSE /\ pc' = AfterParse
                  /\ tick' = [tick EXCEPT !.parse = "ok"]
                  /\ neighbors' = r.value
    /\ UNCHANGED <<MODEL, LAST_PREDICT_TIME, events, routes,
                   clock, files, torn, artifact, env_battery>>
    /\ UNCHANGED <<apiVars, rateVars, parseVars, featVars, battVars, chatVars>>

\* log_metrics(neighbors)
LogStep ==
    /\ pc = "log"
    /\ \E outcome \in {"ok", "open", "write"}, lag \in Lags, k \in 0..Len(neighbors) :
         LET t2 == clock + lag
             exists == LogPath(UtcDate(t2)) \in DOMAIN files
             r == log_metrics(files, torn, neighbors, env_battery, clock, t2, outcome, k)
         IN  /\ outcome = "write" =>
                    k < Len(RowsToWrite(exists, IsoFormat(clock), neighbors, 0))
             /\ outcome # "write" => k = 0
             /\ files' = r.files
             /\ torn' = r.torn
             /\ clock' = t2
             /\ pc' = IF r.raised THEN OnRaise ELSE AfterLog
             /\ tick' = [tick EXCEPT !.log = IF r.raised THEN "fail" ELSE "ok"]
    /\ UNCHANGED <<MODEL, LAST_PREDICT_TIME, neighbors, events, routes,
                   artifact, env_battery>>
    /\ UNCHANGED <<apiVars, rateVars, parseVars, featVars, battVars, chatVars>>

\* maybe_predict_and_act(neighbors)
PredictStep ==
    /\ pc = "predict"
    /\ LET r == maybe_predict_and_act(MODEL, LAST_PREDICT_TIME, clock, neighbors,
                                      env_battery, routes)
       IN  /\ LAST_PREDICT_TIME' = r.last
           /\ events' = r.events
           /\ routes' = r.routes
           /\ pc' = IF r.how = "raised" THEN OnRaise ELSE "sleep"
           /\ tick' = [tick EXCEPT !.predict = r.how]
    /\ UNCHANGED <<MODEL, neighbors, clock, files, torn, artifact, env_battery>>
    /\ UNCHANGED <<apiVars, rateVars, parseVars, featVars, battVars, chatVars>>

\* except Exception as e: print(f"[ERROR] {e}")
ExceptStep ==
    /\ pc = "except"
    /\ pc' = "sleep"
    /\ tick' = [tick EXCEPT !.err = TRUE]
    /\ UNCHANGED <<MODEL, LAST_PREDICT_TIME, neighbors, events, routes,
                   clock, files, torn, artifact, env_battery>>
    /\ UNCHANGED <<apiVars, rateVars, parseVars, featVars, battVars, chatVars>>

\* time.sleep(POLL_INTERVAL_SEC), then the next iteration of while True
SleepStep ==
    /\ pc = "sleep"
    /\ tick.n < MaxTicks
    /\ \E d \in Drifts :
         /\ clock' = time_sleep(clock, POLL_INTERVAL_SEC, d)
         /\ tick' = NewTick(tick.n + 1, time_sleep(clock, POLL_INTERVAL_SEC, d))
    /\ pc' = "parse"
    /\ events' = <<>>
    /\ UNCHANGED <<MODEL, LAST_PREDICT_TIME, neighbors, routes,
                   files, torn, artifact, env_battery>>
    /\ UNCHANGED <<apiVars, rateVars, parseVars, featVars, battVars, chatVars>>

-----------------------------------------------------------------------------
(* api.py *)

\* The value of mesh_monitor.MODEL when api.py's import statement runs: the
\* module-level assignment; importing the module does not call load_model.
MODEL_at_import == "None"

ModelNotLoaded == "Model not loaded on this node"

Response(route, src, status, error, items) ==
    [route |-> route, src |-> src, status |-> status, error |-> error, items |-> items]

\* from mesh_monitor import (..., MODEL)
ApiImport ==
    /\ apiPc = "import"
    /\ api_MODEL' = MODEL_at_import
    /\ apiPc' = "serve"
    /\ UNCHANGED apiResp
    /\ UNCHANGED <<monVars, rateVars, parseVars, featVars, battVars, chatVars>>

\* Faulty variant of topology: a failed read is answered with an empty 200
TopologySwallowsError(src) ==
    LET r == parse_batman_originators(src)
    IN  Response("topology", src, 200, "",
                 IF r.raised # "none" THEN <<>>
                 ELSE [i \in 1..Len(r.value) |->
                          [neighbor |-> r.value[i].neighbor,
                           last_seen_ms |-> r.value[i].last_seen_ms,
                           tq |-> r.value[i].tq,
                           hop_count |-> r.value[i].hop_count]])

\* GET /api/v1/topology
topology(src) ==
    LET r == parse_batman_originators(src)
    IN  IF r.raised # "none"
        THEN Response("topology", src, 500, r.raised, <<>>)
        ELSE Response("topology", src, 200, "",
                      [i \in 1..Len(r.value) |->
                          [neighbor |-> r.value[i].neighbor,
                           last_seen_ms |-> r.value[i].last_seen_ms,
                           tq |-> r.value[i].tq,
                           hop_count |-> r.value[i].hop_count]])

\* The loop of predictions() over neighbors, from neighbor i on
RECURSIVE PredsFrom(_, _, _, _)
PredsFrom(model, neighs, battery, i) ==
    IF i > Len(neighs) THEN [items |-> <<>>, raised |-> FALSE]
    ELSE LET n == neighs[i]
             r == predict_proba(model, FeatureRow(n, battery))
             rest == PredsFrom(model, neighs, battery, i + 1)
         IN  IF r.raised THEN [items |-> <<>>, raised |-> TRUE]
             ELSE [items |-> <<[neighbor |-> n.neighbor, failure_prob |-> r.prob,
                                tq |-> n.tq, hop_count |-> n.hop_count]>> \o rest.items,
                   raised |-> rest.raised]

\* GET /api/v1/predictions. An exception that leaves the view function is
\* answered by Flask with a 500 of its own.
predictions(model, src, env) ==
    IF model = "None"
    THEN Response("predictions", src, 500, ModelNotLoaded, <<>>)
    ELSE LET r == parse_batman_originators(src)
             p == PredsFrom(model, r.value, get_battery_pct(env), 1)
         IN  IF r.raised # "none"
             THEN Response("predictions", src, 500, r.raised, <<>>)
             ELSE IF p.raised
             THEN Response("predictions", src, 500, "Internal Server Error", <<>>)
             ELSE Response("predictions", src, 200, "", p.items)

\* What the telemetry path can hold when a request arrives
ApiLines == {TableHeader, RowA5, RowA150, RowB255, RowNoTq}
ApiSources ==
    {SrcMissing, SrcUnreadable, SrcOk(<<>>)}
        \cup {SrcOk(<<a>>) : a \in ApiLines}
        \cup {SrcOk(<<a, b>>) : a \in ApiLines, b \in ApiLines}

Topology ==
    /\ apiPc = "serve"
    /\ \E src \in ApiSources : apiResp' = topology(src)
    /\ UNCHANGED <<apiPc, api_MODEL>>
    /\ UNCHANGED <<monVars, rateVars, parseVars, featVars, battVars, chatVars>>

Predictions ==
    /\ apiPc = "serve"
    /\ \E src \in ApiSources : apiResp' = predictions(api_MODEL, src, env_battery)
    /\ UNCHANGED <<apiPc, api_MODEL>>
    /\ UNCHANGED <<monVars, rateVars, parseVars, featVars, battVars, chatVars>>

-----------------------------------------------------------------------------
(* maybe_predict_and_act called directly, at any times *)

\* Calls explored
MaxCalls == 3
\* Seconds of clock explored
MaxSpan == 7

NeighborLists ==
    {<<>>, ParseLines(<<RowA5>>), ParseLines(<<RowA150, RowB255>>)}

RateAdvance ==
    /\ clock < ClockStart + MaxSpan
    /\ clock' = clock + 1
    /\ UNCHANGED <<pc, MODEL, LAST_PREDICT_TIME, neighbors, tick, events, routes,
                   files, torn, artifact, env_battery>>
    /\ UNCHANGED <<apiVars, rateVars, parseVars, featVars, battVars, chatVars>>

RateCall ==
    /\ Len(callTimes) < MaxCalls
    /\ \E neighs \in NeighborLists :
         LET r == maybe_predict_and_act(MODEL, LAST_PREDICT_TIME, clock, neighs,
                                        env_battery, routes)
         IN  /\ neighbors' = neighs
             /\ LAST_PREDICT_TIME' = r.last
             /\ events' = r.events
             /\ routes' = r.routes
             /\ callTimes' = Append(callTimes, clock)
             /\ callScored' = Append(callScored,
                                      r.how \in {"fired", "raised"} /\ neighs # <<>>)
    /\ UNCHANGED <<pc, MODEL, tick, clock, files, torn, artifact, env_battery>>
    /\ UNCHANGED <<apiVars, parseVars, featVars, battVars, chatVars>>

-----------------------------------------------------------------------------
(* parse_batman_originators called on a given text *)

\* Lines of the text explored
MaxLines == 2

Mac == <<"a", "a">>
LineVocab ==
    {<<>>,
     SP \o NL,
     SP \o HeaderToken \o SP \o TqPrefix \o <<"9">> \o SP \o <<"(", "1">> \o NL,
     Mac \o SP \o TqPrefix \o <<"2", "0">> \o SP \o <<"(", "3">> \o NL,
     SP \o MacB \o SP \o <<"(", "7">> \o SP \o <<"x">> \o SP \o TqPrefix \o <<"5">>,
     Mac \o SP \o <<"(", "3">>,
     Mac \o SP \o TqPrefix \o <<"5">>,
     Mac \o SP \o TqPrefix \o <<"x">> \o SP \o TqPrefix \o <<"5">> \o SP \o <<"(", "3">>,
     Mac \o SP \o TqPrefix \o <<"5">> \o SP \o <<"(", "x">> \o SP \o <<"(", "3">>,
     Mac \o SP \o TqPrefix \o <<"5", ":", "7">> \o SP \o <<"(", "3">>,
     Mac \o SP \o TqPrefix \o <<"5">> \o SP \o <<"(", "3", ")">>,
     Mac \o SP \o TqPrefix \o <<"5">> \o SP \o <<"(", "(", "3">>,
     Mac \o SP \o TqPrefix \o SP \o <<"(", "3">>,
     Mac \o SP \o TqPrefix \o <<"-", "5">> \o SP \o <<"(", "3">>,
     Mac \o SP \o TqPrefix \o <<"3", "0", "0">> \o SP \o <<"(", "-", "3">>}

RECURSIVE SeqsUpTo(_, _)
SeqsUpTo(S, n) ==
    IF n = 0 THEN {<<>>}
    ELSE SeqsUpTo(S, n - 1) \cup {Append(q, x) : q \in SeqsUpTo(S, n - 1), x \in S}

ParseCall ==
    /\ ~p_out.called
    /\ LET r == parse_batman_originators(SrcOk(p_lines))
       IN  p_out' = [raised |-> r.raised, value |-> r.value, called |-> TRUE]
    /\ UNCHANGED p_lines
    /\ UNCHANGED <<monVars, apiVars, rateVars, featVars, battVars, chatVars>>

-----------------------------------------------------------------------------
(* The feature extractors called directly *)

\* How far outside [0, 255] the argument ranges
TqMargin == 45

FeatCall ==
    /\ ~f_out.called
    /\ f_out' = [called |-> TRUE,
                 signal_strength |-> estimate_signal_strength(f_tq),
                 packet_loss |-> estimate_packet_loss(f_tq)]
    /\ UNCHANGED f_tq
    /\ UNCHANGED <<monVars, apiVars, rateVars, parseVars, battVars, chatVars>>

-----------------------------------------------------------------------------
(* get_battery_pct called directly *)

\* Characters of the override explored
MaxEnvLen == 3

EnvAlphabet == {"0", "1", "5", "-", "+", ".", "n", "a", "i", "f", " ", "x"}

\* Every value of CRISIS_BATTERY_PCT explored: unset, or a text
EnvValues == {EnvUnset} \cup {EnvSet(chars) : chars \in SeqsUpTo(EnvAlphabet, MaxEnvLen)}

BatteryCall ==
    /\ ~b_out.called
    /\ b_out' = [called |-> TRUE, value |-> get_battery_pct(b_env)]
    /\ UNCHANGED b_env
    /\ UNCHANGED <<monVars, apiVars, rateVars, parseVars, featVars, chatVars>>

-----------------------------------------------------------------------------
(* chat_server.py: main() accepts connections and starts one handle_client *)
(* thread for each; the threads share the list clients under clients_lock. *)

\* Connections accepted over the run
NConns == 2
\* Messages one handler receives
MaxMsgs == 1

Conns == 1..NConns

\* x in list
Holds(list, x) == \E i \in DOMAIN list : list[i] = x

\* Faulty variant of ListRemove: the element stays in the list
ListRemoveKeeps(list, x) == [list |-> list, raised |-> FALSE]

\* list.remove(x): drops the first occurrence of x; raises ValueError when
\* the list does not hold x
ListRemove(list, x) ==
    IF ~Holds(list, x) THEN [list |-> list, raised |-> TRUE]
    ELSE LET i == CHOOSE k \in DOMAIN list :
                      list[k] = x /\ \A j \in 1..(k - 1) : list[j] # x
         IN  [list |-> SubSeq(list, 1, i - 1) \o SubSeq(list, i + 1, Len(list)),
              raised |-> FALSE]

\* socket.close()
Closed(ss, c) == [ss EXCEPT ![c] = "closed"]

\* owed once the socket of connection c is closed
OwedWithout(c) == [h \in Conns |-> owed[h] \ {c}]

\* main(): conn, addr = s.accept(); threading.Thread(target=handle_client, ...).start()
Accept(c) ==
    /\ socks[c] = "none"
    /\ \A d \in 1..(c - 1) : socks[d] # "none"
    /\ socks' = [socks EXCEPT ![c] = "open"]
    /\ hpc' = [hpc EXCEPT ![c] = "register"]
    /\ UNCHANGED <<clients, clients_lock, todo, received, owed, sent_to, send_failed>>
    /\ UNCHANGED <<monVars, apiVars, rateVars, parseVars, featVars, battVars>>

\* handle_client: with clients_lock: clients.append(conn)
Register(c) ==
    /\ hpc[c] = "register"
    /\ clients_lock = 0
    /\ clients' = Append(clients, c)
    /\ hpc' = [hpc EXCEPT ![c] = "recv"]
    /\ UNCHANGED <<clients_lock, socks, todo, received, owed, sent_to, send_failed>>
    /\ UNCHANGED <<monVars, apiVars, rateVars, parseVars, featVars, battVars>>

\* handle_client: data = conn.recv(1024) returns data; msg = data.strip()
RecvData(c) ==
    /\ hpc[c] = "recv"
    /\ socks[c] = "open"
    /\ received[c] < MaxMsgs
    /\ received' = [received EXCEPT ![c] = @ + 1]
    /\ owed' = [owed EXCEPT ![c] = {d \in Conns \ {c} : socks[d] = "open"}]
    /\ sent_to' = [sent_to EXCEPT ![c] = {}]
    /\ hpc' = [hpc EXCEPT ![c] = "broadcast"]
    /\ UNCHANGED <<clients, clients_lock, socks, todo, send_failed>>
    /\ UNCHANGED <<monVars, apiVars, rateVars, parseVars, featVars, battVars>>

\* handle_client: conn.recv returns b"" (break) or raises (except): on to finally
RecvEnd(c) ==
    /\ hpc[c] = "recv"
    /\ hpc' = [hpc EXCEPT ![c] = "finally"]
    /\ UNCHANGED <<clients, clients_lock, socks, todo, received, owed, sent_to,
                   send_failed>>
    /\ UNCHANGED <<monVars, apiVars, rateVars, parseVars, featVars, battVars>>

\* broadcast: with clients_lock: for c in list(clients)
BroadcastEnter(c) ==
    /\ hpc[c] = "broadcast"
    /\ clients_lock = 0
    /\ clients_lock' = c
    /\ todo' = [todo EXCEPT ![c] = clients]
    /\ hpc' = [hpc EXCEPT ![c] = "loop"]
    /\ UNCHANGED <<clients, socks, received, owed, sent_to, send_failed>>
    /\ UNCHANGED <<monVars, apiVars, rateVars, parseVars, featVars, battVars>>

\* broadcast: one iteration of the loop, in the thread of sender c. sendall
\* returns, or raises (always on a closed socket, possibly on an open one
\* whose peer is gone); then clients.remove(d), its ValueError passed over,
\* and d.close().
BroadcastVisit(c) ==
    /\ hpc[c] = "loop"
    /\ todo[c] # <<>>
    /\ todo' = [todo EXCEPT ![c] = Tail(@)]
    /\ LET d == Head(todo[c])
       IN  IF d = c
           THEN UNCHANGED <<clients, socks, owed, sent_to, send_failed>>
           ELSE /\ sent_to' = [sent_to EXCEPT ![c] = @ \cup {d}]
                /\ \E ok \in BOOLEAN :
                     /\ ok => socks[d] = "open"
                     /\ IF ok
                        THEN UNCHANGED <<clients, socks, owed, send_failed>>
                        ELSE /\ clients' = ListRemove(clients, d).list
                             /\ socks' = Closed(socks, d)
                             /\ owed' = OwedWithout(d)
                             /\ send_failed' = send_failed \cup {d}
    /\ UNCHANGED <<clients_lock, hpc, received>>
    /\ UNCHANGED <<monVars, apiVars, rateVars, parseVars, featVars, battVars>>

\* broadcast: the loop is over, the with block releases the lock
BroadcastExit(c) ==
    /\ hpc[c] = "loop"
    /\ todo[c] = <<>>
    /\ clients_lock' = 0
    /\ hpc' = [hpc EXCEPT ![c] = "recv"]
    /\ UNCHANGED <<clients, socks, todo, received, owed, sent_to, send_failed>>
    /\ UNCHANGED <<monVars, apiVars, rateVars, parseVars, featVars, battVars>>

\* handle_client, finally: with clients_lock: if conn in clients: clients.remove(conn)
FinallyRemove(c) ==
    /\ hpc[c] = "finally"
    /\ clients_lock = 0
    /\ IF Holds(clients, c)
       THEN /\ clients' = ListRemove(clients, c).list
            /\ hpc' = [hpc EXCEPT ![c] = IF ListRemove(clients, c).raised
                                          THEN "crashed" ELSE "close"]
       ELSE /\ UNCHANGED clients
            /\ hpc' = [hpc EXCEPT ![c] = "close"]
    /\ UNCHANGED <<clients_lock, socks, todo, received, owed, sent_to, send_failed>>
    /\ UNCHANGED <<monVars, apiVars, rateVars, parseVars, featVars, battVars>>

\* handle_client, finally: conn.close(), after the lock is released
FinallyClose(c) ==
    /\ hpc[c] = "close"
    /\ socks' = Closed(socks, c)
    /\ owed' = OwedWithout(c)
    /\ hpc' = [hpc EXCEPT ![c] = "done"]
    /\ UNCHANGED <<clients, clients_lock, todo, received, sent_to, send_failed>>
    /\ UNCHANGED <<monVars, apiVars, rateVars, parseVars, featVars, battVars>>

-----------------------------------------------------------------------------
(* Initial states and specifications *)

\* The monitor process before main() runs, with model m in MODEL and art at MODEL_PATH
InitMonWith(m, art) ==
    /\ pc = "start"
    /\ MODEL = m
    /\ LAST_PREDICT_TIME = 0
    /\ neighbors = <<>>
    /\ tick = NewTick(1, ClockStart)
    /\ events = <<>>
    /\ routes = {}
    /\ clock = ClockStart
    /\ files = <<>>
    /\ torn = {}
    /\ artifact = art
    /\ env_battery \in BatteryEnvs

InitMon == \E art \in Artifacts : InitMonWith("None", art)

InitApi ==
    /\ apiPc = "import"
    /\ api_MODEL = "None"
    /\ apiResp = Response("none", SrcMissing, 0, "", <<>>)

InitRate ==
    /\ callTimes = <<>>
    /\ callScored = <<>>

InitParse ==
    /\ p_lines = <<>>
    /\ p_out = [raised |-> "none", value |-> <<>>, called |-> FALSE]

InitFeat ==
    /\ f_tq = 0
    /\ f_out = [called |-> FALSE, signal_strength |-> 0, packet_loss |-> 0]

InitBatt ==
    /\ b_env = EnvUnset
    /\ b_out = [called |-> FALSE, value |-> Finite(DefaultBattery, 1)]

\* The chat relay before main() accepts a connection
InitChat ==
    /\ clients = <<>>
    /\ clients_lock = 0
    /\ socks = [c \in Conns |-> "none"]
    /\ hpc = [c \in Conns |-> "idle"]
    /\ todo = [c \in Conns |-> <<>>]
    /\ received = [c \in Conns |-> 0]
    /\ owed = [c \in Conns |-> {}]
    /\ sent_to = [c \in Conns |-> {}]
    /\ send_failed = {}

\* The monitor process
Init == InitMon /\ InitApi /\ InitRate /\ InitParse /\ InitFeat /\ InitBatt /\ InitChat

Next ==
    \/ MainStart
    \/ ParseStep
    \/ LogStep
    \/ PredictStep
    \/ ExceptStep
    \/ SleepStep

Spec == Init /\ [][Next]_vars

\* The API process
NextApi ==
    \/ ApiImport
    \/ Topology
    \/ Predictions

SpecApi == Init /\ [][NextApi]_vars

\* maybe_predict_and_act with a loaded classifier, called at any times
InitRateCalls ==
    /\ \E m \in Classifiers : InitMonWith(m, m)
    /\ InitApi /\ InitRate /\ InitParse /\ InitFeat /\ InitBatt /\ InitChat

NextRate ==
    \/ RateAdvance
    \/ RateCall

SpecRate == InitRateCalls /\ [][NextRate]_vars

\* parse_batman_originators on every text of up to MaxLines lines
InitParseCalls ==
    /\ InitMonWith("None", "missing")
    /\ InitApi /\ InitRate /\ InitFeat /\ InitBatt /\ InitChat
    /\ p_lines \in SeqsUpTo(LineVocab, MaxLines)
    /\ p_out = [raised |-> "none", value |-> <<>>, called |-> FALSE]

NextParse == ParseCall

SpecParse == InitParseCalls /\ [][NextParse]_vars

\* The feature extractors on every argument in range
InitFeatCalls ==
    /\ InitMonWith("None", "missing")
    /\ InitApi /\ InitRate /\ InitParse /\ InitBatt /\ InitChat
    /\ f_tq \in (0 - TqMargin)..(TqMax + TqMargin)
    /\ f_out = [called |-> FALSE, signal_strength |-> 0, packet_loss |-> 0]

NextFeat == FeatCall

SpecFeat == InitFeatCalls /\ [][NextFeat]_vars

\* get_battery_pct on every value of the override
InitBattCalls ==
    /\ InitMonWith("None", "missing")
    /\ InitApi /\ InitRate /\ InitParse /\ InitFeat /\ InitChat
    /\ b_env \in EnvValues
    /\ b_out = [called |-> FALSE, value |-> Finite(DefaultBattery, 1)]

NextBatt == BatteryCall

SpecBatt == InitBattCalls /\ [][NextBatt]_vars

\* The chat relay: every interleaving of main() and the handler threads
InitChatRun ==
    /\ InitMonWith("None", "missing")
    /\ InitApi /\ InitRate /\ InitParse /\ InitFeat /\ InitBatt
    /\ InitChat

NextChat ==
    \E c \in Conns :
        \/ Accept(c)
        \/ Register(c)
        \/ RecvData(c)
        \/ RecvEnd(c)
        \/ BroadcastEnter(c)
        \/ BroadcastVisit(c)
        \/ BroadcastExit(c)
        \/ FinallyRemove(c)
        \/ FinallyClose(c)

SpecChat == InitChatRun /\ [][NextChat]_vars

-----------------------------------------------------------------------------
(* Claims *)

\* C1: over any sequence of calls of maybe_predict_and_act with a loaded
\* classifier and a non-decreasing clock, any two calls that invoke the
\* classifier have clock readings at least PREDICT_INTERVAL_SEC apart; so of
\* two calls 1s apart at most one invokes it.
C1_RateLimit ==
    \A i, j \in DOMAIN callTimes :
        (i < j /\ callScored[i] /\ callScored[j])
            => callTimes[j] - callTimes[i] >= PREDICT_INTERVAL_SEC

\* Two calls 1s apart, the first of which scored and the second of which did not
C1_Witness ==
    \E i \in DOMAIN callTimes :
        /\ i + 1 \in DOMAIN callTimes
        /\ callTimes[i + 1] = callTimes[i] + 1
        /\ callScored[i]
        /\ ~callScored[i + 1]

\* C2: in a loop iteration whose parse_batman_originators raises, no step
\* writes a header or row to any log file, none invokes the classifier or
\* changes LAST_PREDICT_TIME, and main() goes from the failed call to its
\* except clause, from there to the sleep and from there to the next
\* iteration, never out of the loop.
C2_SourceMissingTick ==
    [][ (tick.parse = "fail" \/ tick'.parse = "fail") =>
          /\ files' = files
          /\ torn' = torn
          /\ LAST_PREDICT_TIME' = LAST_PREDICT_TIME
          /\ events' = <<>>
          /\ tick.log = "none" /\ tick'.log = "none"
          /\ tick.predict = "none" /\ tick'.predict = "none"
          /\ pc = "parse" => pc' = "except"
          /\ pc = "except" => pc' = "sleep"
          /\ pc = "sleep" => (pc' = "parse" /\ tick'.n = tick.n + 1)
          /\ pc \in {"parse", "except", "sleep"}
    ]_vars

\* An iteration whose read failed has reached its sleep, with earlier rows on disk
C2_Witness ==
    /\ tick.parse = "fail"
    /\ pc = "sleep"
    /\ tick.err
    /\ files # <<>>

\* C3: in an iteration whose read succeeds and whose log_metrics raises, the
\* rest of the iteration still runs: with a classifier loaded and the predict
\* interval elapsed, the predict step has been performed when the iteration
\* reaches its sleep.
C3_LogFailureTickContinues ==
    (/\ pc = "sleep"
     /\ tick.parse = "ok"
     /\ tick.log = "fail"
     /\ MODEL # "None"
     /\ clock - LAST_PREDICT_TIME >= PREDICT_INTERVAL_SEC)
        => tick.predict \in {"fired", "raised"}

\* C4: whatever MODEL_PATH holds, main() gets past load_model into its poll
\* loop, and with the artifact missing or unreadable it runs with MODEL absent.
C4_LoadNonFatal ==
    pc # "start" =>
        /\ pc \in {"parse", "log", "predict", "except", "sleep"}
        /\ artifact \in {"missing", "unreadable"} => MODEL = "None"

\* C5: GET /api/v1/predictions answers the fixed 500 exactly when the node has
\* no classifier: with no artifact it answers 500 "Model not loaded on this
\* node", and with a loadable artifact and a readable source it answers 200
\* with one entry per neighbor of the source.
C5_PredictionsByArtifact ==
    apiResp.route = "predictions" =>
        /\ artifact = "missing" =>
              (apiResp.status = 500 /\ apiResp.error = ModelNotLoaded)
        /\ (artifact = "clfForest" /\ apiResp.src.status = "ok") =>
              /\ apiResp.status = 200
              /\ Len(apiResp.items) = Len(ParseLines(apiResp.src.lines))

\* What C6 calls a line: its tokens, whether it is a data line (not blank,
\* not the header), and whether it carries the tokens of a well-formed line.
Tokens(raw) == Split(raw)
IsDataLine(raw) == Tokens(raw) # <<>> /\ ~StartsWith(Tokens(raw)[1], HeaderToken)
IsTqToken(t) == StartsWith(t, TqPrefix) /\ IsInt(SubSeq(t, Len(TqPrefix) + 1, Len(t)))
IsParenToken(t) == StartsWith(t, ParenPrefix) /\ IsInt(Tail(t))
HasTqPrefix(t) == StartsWith(t, TqPrefix)
HasParenPrefix(t) == StartsWith(t, ParenPrefix)

\* The first token of ts that is in the set S
FirstIn(ts, S) ==
    ts[CHOOSE i \in DOMAIN ts : ts[i] \in S /\ \A j \in 1..(i - 1) : ts[j] \notin S]

TokenSet(raw) == {Tokens(raw)[i] : i \in DOMAIN Tokens(raw)}
TqTokens(raw) == {t \in TokenSet(raw) : IsTqToken(t)}
ParenTokens(raw) == {t \in TokenSet(raw) : IsParenToken(t)}
TqPrefixed(raw) == {t \in TokenSet(raw) : HasTqPrefix(t)}
ParenPrefixed(raw) == {t \in TokenSet(raw) : HasParenPrefix(t)}

\* Well-formed as C6 states it: some token TQ:<int> and some token (<int>
WellFormed(raw) ==
    /\ IsDataLine(raw)
    /\ \E i \in DOMAIN Tokens(raw) : IsTqToken(Tokens(raw)[i])
    /\ \E i \in DOMAIN Tokens(raw) : IsParenToken(Tokens(raw)[i])

RecordOf(raw) ==
    [neighbor |-> Tokens(raw)[1],
     last_seen_ms |-> IntVal(Tail(FirstIn(Tokens(raw), ParenTokens(raw)))),
     tq |-> IntVal(SubSeq(FirstIn(Tokens(raw), TqTokens(raw)), Len(TqPrefix) + 1,
                          Len(FirstIn(Tokens(raw), TqTokens(raw))))),
     hop_count |-> 1]

RecordsOf(lines) ==
    LET wf == SelectSeq(lines, WellFormed)
    IN  [i \in 1..Len(wf) |-> RecordOf(wf[i])]

\* Well-formed as the amended C6 states it: the FIRST token with the prefix
\* TQ: holds an integer between its first and second colon, and the FIRST
\* token with the prefix ( is an integer once its parentheses "(" are stripped
WellFormedFirst(raw) ==
    /\ IsDataLine(raw)
    /\ \E i \in DOMAIN Tokens(raw) : HasTqPrefix(Tokens(raw)[i])
    /\ IsInt(SecondField(FirstIn(Tokens(raw), TqPrefixed(raw))))
    /\ \E i \in DOMAIN Tokens(raw) : HasParenPrefix(Tokens(raw)[i])
    /\ IsInt(Strip(FirstIn(Tokens(raw), ParenPrefixed(raw)), {"("}))

RecordOfFirst(raw) ==
    [neighbor |-> Tokens(raw)[1],
     last_seen_ms |-> IntVal(Strip(FirstIn(Tokens(raw), ParenPrefixed(raw)), {"("})),
     tq |-> IntVal(SecondField(FirstIn(Tokens(raw), TqPrefixed(raw)))),
     hop_count |-> 1]

RecordsOfFirst(lines) ==
    LET wf == SelectSeq(lines, WellFormedFirst)
    IN  [i \in 1..Len(wf) |-> RecordOfFirst(wf[i])]

\* C6 as stated: for any lines of an existing source the call does not fail
\* and returns, in input order, exactly one record per line that is not
\* blank, not the header, and has a TQ:<int> token and a (<int> token; every
\* other line is skipped.
C6_OneRecordPerWellFormedLine ==
    p_out.called => (p_out.raised = "none" /\ p_out.value = RecordsOf(p_lines))

\* C6 as amended: the same, with well-formed read on the first TQ:-prefixed
\* and the first (-prefixed token of the line.
C6_OneRecordPerFirstTokenLine ==
    p_out.called => (p_out.raised = "none" /\ p_out.value = RecordsOfFirst(p_lines))

\* One well-formed line and one line with no TQ: token gave exactly one record
C6_Witness ==
    /\ p_out.called
    /\ Len(p_lines) = 2
    /\ \E i, j \in DOMAIN p_lines :
          /\ WellFormed(p_lines[i]) /\ WellFormedFirst(p_lines[i])
          /\ IsDataLine(p_lines[j])
          /\ \A k \in DOMAIN Tokens(p_lines[j]) : ~HasTqPrefix(Tokens(p_lines[j])[k])
    /\ Len(p_out.value) = 1

IsHeaderRow(r) == r.kind = "header"

\* The paths of every UTC date up to the clock's
PathsSoFar == {LogPath(d) : d \in 0..UtcDate(clock)}

PredictEvents == SelectSeq(events, LAMBDA e : e.kind = "PREDICT")
ActionEvents == SelectSeq(events, LAMBDA e : e.kind = "ACTION")
AtOrAbove == SelectSeq(PredictEvents, LAMBDA e : e.prob >= PREDICTION_THRESHOLD)

C9_Complement ==
    (f_out.called /\ f_tq \in 0..TqMax) =>
        /\ f_out.signal_strength + 2 * f_out.packet_loss = FeatureUnit
        /\ TqMax * f_out.signal_strength = f_tq * FeatureUnit
        /\ 2 * f_out.packet_loss = FeatureUnit - f_out.signal_strength
        /\ f_out.signal_strength \in 0..FeatureUnit
        /\ 2 * f_out.packet_loss \in 0..FeatureUnit

\* The extractors were called on link quality 200
C9_Witness ==
    /\ f_out.called
    /\ f_tq = 200
    /\ f_out.signal_strength = 400
    /\ f_out.packet_loss = 55

\* C10: a link quality below 0 gives signal_strength 0 and packet_loss 0.5,
\* and one above 255 gives signal_strength 1 and packet_loss 0.
C10_Clamp ==
    f_out.called =>
        /\ f_tq < 0 => (f_out.signal_strength = 0 /\ 2 * f_out.packet_loss = FeatureUnit)
        /\ f_tq > TqMax => (f_out.signal_strength = FeatureUnit /\ f_out.packet_loss = 0)

\* The extractors were called on link quality -5
C10_Witness ==
    /\ f_out.called
    /\ f_tq = 0 - 5
    /\ f_out.signal_strength = 0

\* C11: GET /api/v1/topology always answers: 500 with an error string when
\* the read of the source fails, otherwise 200 with exactly the records the
\* read produced, in the same order, neighbor, last_seen_ms, tq and hop_count
\* unchanged.
C11_TopologyAnswers ==
    apiResp.route = "topology" =>
        LET r == parse_batman_originators(apiResp.src)
        IN  IF apiResp.src.status # "ok"
            THEN /\ apiResp.status = 500
                 /\ apiResp.error # ""
                 /\ apiResp.items = <<>>
            ELSE /\ r.raised = "none"
                 /\ apiResp.status = 200
                 /\ apiResp.error = ""
                 /\ Len(apiResp.items) = Len(r.value)
                 /\ \A i \in DOMAIN r.value :
                       /\ apiResp.items[i].neighbor = r.value[i].neighbor
                       /\ apiResp.items[i].last_seen_ms = r.value[i].last_seen_ms
                       /\ apiResp.items[i].tq = r.value[i].tq
                       /\ apiResp.items[i].hop_count = r.value[i].hop_count

\* A 200 was given with the two records of a two-line source, in the order
\* of its lines
C11_Witness ==
    /\ apiResp.route = "topology"
    /\ apiResp.status = 200
    /\ apiResp.src = SrcOk(<<RowB255, RowA150>>)
    /\ Len(apiResp.items) = 2
    /\ apiResp.items[1].neighbor = MacB /\ apiResp.items[1].tq = 255
    /\ apiResp.items[2].neighbor = MacA /\ apiResp.items[2].tq = 150

IsPrefix(a, b) == Len(a) <= Len(b) /\ SubSeq(b, 1, Len(a)) = a
DataRowsOf(rows) == SelectSeq(rows, LAMBDA r : r.kind = "data")

\* C12: every step leaves every log file an extension of what it was (no
\* prior row modified, truncated or removed), and a log_metrics call that
\* returns adds, to the file of the current date only, exactly one data row
\* per neighbor record, in the records' order, with will_fail = 0 (after the
\* header when the file is new).
C12_AppendOnly ==
    [][ /\ \A path \in DOMAIN files :
              path \in DOMAIN files' /\ IsPrefix(files[path], files'[path])
        /\ (tick.log = "none" /\ tick'.log = "ok") =>
              LET path == LogPath(UtcDate(clock'))
                  before == IF path \in DOMAIN files THEN files[path] ELSE <<>>
                  added == SubSeq(files'[path], Len(before) + 1, Len(files'[path]))
              IN  /\ \A q \in DOMAIN files' \ {path} :
                        q \in DOMAIN files /\ files'[q] = files[q]
                  /\ Len(DataRowsOf(added)) = Len(neighbors)
                  /\ Len(added) = Len(neighbors) + (IF path \in DOMAIN files THEN 0 ELSE 1)
                  /\ \A i \in DOMAIN neighbors :
                        /\ DataRowsOf(added)[i].neighbor = neighbors[i].neighbor
                        /\ DataRowsOf(added)[i].signal_strength =
                              estimate_signal_strength(neighbors[i].tq)
                        /\ DataRowsOf(added)[i].hop_count = neighbors[i].hop_count
                        /\ DataRowsOf(added)[i].will_fail = 0
    ]_vars

\* A second call has appended two rows to a file that held rows of an
\* earlier call
C12_Witness ==
    /\ tick.log = "ok"
    /\ Len(neighbors) = 2
    /\ \E path \in DOMAIN files :
          /\ path = LogPath(UtcDate(clock))
          /\ Len(files[path]) >= 4
          /\ \E i, j \in DOMAIN files[path] :
                /\ files[path][i].kind = "data" /\ files[path][j].kind = "data"
                /\ files[path][i].timestamp # files[path][j].timestamp

\* C13: after any sequence of log_metrics calls under an advancing UTC
\* clock, every data row in the file of UTC date D carries a timestamp whose
\* UTC calendar date is D, calls that straddle midnight included.
C13_DatePartition ==
    \A path \in DOMAIN files :
        \A i \in DOMAIN files[path] :
            files[path][i].kind = "data" =>
                path = LogPath(files[path][i].timestamp.date)

\* C14: LAST_PREDICT_TIME changes in a loop iteration only if a classifier
\* is loaded, the predict interval had elapsed, and every current neighbor
\* was scored in that iteration; a predict step whose scoring fails part-way
\* leaves LAST_PREDICT_TIME as it was.
C14_LastAdvancesOnlyWhenCompleted ==
    [][ /\ LAST_PREDICT_TIME' # LAST_PREDICT_TIME =>
              /\ MODEL # "None"
              /\ clock - LAST_PREDICT_TIME >= PREDICT_INTERVAL_SEC
              /\ tick'.predict = "fired"
              /\ Len(SelectSeq(events', LAMBDA e : e.kind = "PREDICT")) = Len(neighbors)
        /\ (tick.predict = "none" /\ tick'.predict = "raised") =>
              LAST_PREDICT_TIME' = LAST_PREDICT_TIME
    ]_vars

\* The neighbors on whose feature row the loaded classifier raises
Raising(model, neighs, battery) ==
    {i \in DOMAIN neighs : predict_proba(model, FeatureRow(neighs[i], battery)).raised}

\* How many neighbors are scored before the first on which it raises
ScoredBeforeRaise(model, neighs, battery) ==
    IF Raising(model, neighs, battery) = {} THEN Len(neighs)
    ELSE (CHOOSE i \in Raising(model, neighs, battery) :
              \A j \in Raising(model, neighs, battery) : i <= j) - 1

Due == pc = "predict" /\ MODEL # "None"
          /\ clock - LAST_PREDICT_TIME >= PREDICT_INTERVAL_SEC

\* The score lines of the step are those of the first k neighbors, in order
ScoredInOrder(k) ==
    /\ Len(PredictEvents') = k
    /\ \A i \in 1..k : PredictEvents'[i].neighbor = neighbors[i].neighbor

C16_PollSpacing ==
    [][ /\ tick'.n # tick.n =>
              /\ pc = "sleep"
              /\ tick'.n = tick.n + 1
              /\ tick'.start = clock'
              /\ tick'.start - tick.start >= POLL_INTERVAL_SEC
        /\ tick'.n = tick.n => tick'.start = tick.start
        /\ pc = "except" => (pc' = "sleep" /\ tick'.err)
        /\ (pc \in {"parse", "log", "predict"} /\ tick'.n = tick.n) =>
              pc' \in {"log", "predict", "except", "sleep"}
        /\ clock' >= clock
    ]_vars

\* The third iteration has started, two sleeps after the first, both earlier
\* ones having raised before their predict step (a classifier is loaded and
\* LAST_PREDICT_TIME is still 0)
C16_Witness ==
    /\ tick.n = 3
    /\ pc = "parse"
    /\ tick.start >= ClockStart + 2 * POLL_INTERVAL_SEC
    /\ tick.start = clock
    /\ MODEL # "None"
    /\ LAST_PREDICT_TIME = 0

\* C17: every record returned by parse_batman_originators, for any input
\* text, has tq an integer in [0, 255], last_seen_ms non-negative, and
\* hop_count equal to 1.
C17_RecordRanges ==
    p_out.called =>
        \A i \in DOMAIN p_out.value :
            /\ p_out.value[i].tq \in 0..TqMax
            /\ p_out.value[i].last_seen_ms >= 0
            /\ p_out.value[i].hop_count = 1

InPercentRange(v) == v.kind = "finite" /\ 0 <= v.num /\ v.num <= 100 * v.den
IsDefaultBattery(v) == v.kind = "finite" /\ v.num = DefaultBattery * v.den

\* C18: for every value of the CRISIS_BATTERY_PCT override (unset, empty,
\* unparsable, or any parsable number) get_battery_pct returns a value in
\* [0, 100], and it returns the default 80.0 when the override is unset or
\* unparsable.
C18_BatteryRange ==
    b_out.called =>
        /\ InPercentRange(b_out.value)
        /\ (~b_env.set \/ ~float(b_env.val).ok) => IsDefaultBattery(b_out.value)

\* The handlers whose current message has been through broadcast
Relayed == {c \in Conns : received[c] > 0 /\ hpc[c] \notin {"broadcast", "loop"}}

\* C19: under any interleaving of the handler threads, a message received
\* from a connected client is sent to every other connection that is
\* accepted and whose socket is open (here: was so when the message was
\* received and has stayed so), and is never sent back to its sender.
C19_RelayToAllOthers ==
    /\ \A c \in Relayed : owed[c] \subseteq sent_to[c]
    /\ \A c \in Conns : c \notin sent_to[c]

\* C20: under any interleaving of handle_client and broadcast threads,
\* clients holds each connection at most once and, whenever the lock is
\* free, no closed socket; a connection whose handler has finished or a send
\* to which has failed is not in clients (once the lock is free), and no
\* removal raises out of its handler.
C20_ClientRegistry ==
    /\ \A i, j \in DOMAIN clients : clients[i] = clients[j] => i = j
    /\ \A i \in DOMAIN clients : socks[clients[i]] # "none"
    /\ clients_lock = 0 =>
          \A i \in DOMAIN clients : socks[clients[i]] = "open"
    /\ \A c \in Conns :
          hpc[c] \in {"close", "done"} => ~Holds(clients, c)
    /\ \A c \in send_failed : ~Holds(clients, c) /\ socks[c] = "closed"
    /\ \A c \in Conns : hpc[c] # "crashed"

\* A send to a connection has failed while the other handler was relaying,
\* that connection's own handler has since finished, finding itself already
\* removed, and the relaying connection is still registered
C20_Witness ==
    \E c, d \in Conns :
        /\ c # d
        /\ d \in send_failed
        /\ hpc[d] = "done"
        /\ d \in sent_to[c]
        /\ clients = <<c>>
        /\ clients_lock = 0

====
